---- MODULE Spec2Model ----
(***************************************************************************)
(* GPX merger: the GPX data model, the parser, the merge and              *)
(* deduplication engine, the XML serializer and the upload slots of the    *)
(* route component.                                                        *)
(*                                                                         *)
(* Encoding of the JavaScript values:                                      *)
(*   - a latitude or longitude is an integer number of 10^-7 degrees, an   *)
(*     elevation an integer number of 10^-2 metres, so that toFixed(6),    *)
(*     toFixed(5) and toFixed(1) have a digit to round away;               *)
(*   - the number NaN is the integer NaN below;                            *)
(*   - a string is a sequence of pieces: text that comes from data is one  *)
(*     character per piece, a literal of the source is one piece;          *)
(*   - an optional value (x?: T) is None or Some(v).                       *)
(***************************************************************************)
EXTENDS Integers, Sequences, FiniteSets, TLC

VARIABLES
    gpxIn,      \* mergeGPXData: the argument gpxFiles, as built so far
    merged,     \* mergeGPXData: the returned GPXData, None before the call
    inSteps,    \* the results of merging gpxIn in two calls, None before
    gpxData,    \* gpxDataToXML: the argument, None when there is none
    xmlString,  \* parseGPX: the argument xmlString, None when there is none
    fileName,   \* parseGPX: the argument fileName
    parsed,     \* parseGPX: the returned GPXData, None before the call
    gpxFiles,   \* RouteComponent: the upload slots
    error,      \* GpxFileDropZone: the error state of the zone of each slot
    reads,      \* handleFile: the calls that await file.text()
    chartFiles, \* ElevationChart: the prop gpxFiles, as built so far
    rendered,   \* what a render computes from chartFiles, None before it
    chartData,  \* ElevationChart: the sample list `data` of the first pass
    sampled     \* the chart data and statistics of chartData, None before

mergeVars == <<gpxIn, merged, inSteps>>
parseVars == <<gpxData, xmlString, fileName, parsed>>
slotVars == <<gpxFiles, error, reads>>
chartVars == <<chartFiles, rendered, chartData, sampled>>
vars == <<mergeVars, parseVars, slotVars, chartVars>>

---------------------------------------------------------------------------
(* Optional values and numbers *)

None == <<>>
Some(v) == <<v>>
IsSome(o) == Len(o) = 1
Get(o) == o[1]

NaN == 0 - 2000000000

Abs(x) == IF x < 0 THEN 0 - x ELSE x

RECURSIVE Pow10(_)
Pow10(n) == IF n = 0 THEN 1 ELSE 10 * Pow10(n - 1)

\* Number.prototype.toFixed(digits) of a number held with `scale` decimals:
\* the sign and the digits of the magnitude rounded to `digits` decimals
\* (the larger neighbour on a tie); "NaN" for NaN.
toFixed(x, scale, digits) ==
    IF x = NaN
    THEN [nan |-> TRUE, neg |-> FALSE, n |-> 0]
    ELSE LET unit == Pow10(scale - digits)
         IN  [nan |-> FALSE, neg |-> x < 0,
              n |-> (Abs(x) + unit \div 2) \div unit]

---------------------------------------------------------------------------
(* Merge and deduplication engine *)

\* A variant that leaves the timestamp out of the key
trackPointKeyNoTime(pt) ==
    << toFixed(pt.lat, 7, 6), toFixed(pt.lon, 7, 6),
       IF IsSome(pt.ele) THEN Some(toFixed(Get(pt.ele), 2, 1)) ELSE None,
       <<>> >>

\* `${lat.toFixed(6)},${lon.toFixed(6)},${ele?.toFixed(1) ?? ""},${time ?? ""}`
\* The first three fields hold no comma, so the joined string determines the
\* four fields; an absent elevation gives "", which no toFixed gives; an
\* absent time gives the empty string.
trackPointKey(pt) ==
    << toFixed(pt.lat, 7, 6), toFixed(pt.lon, 7, 6),
       IF IsSome(pt.ele) THEN Some(toFixed(Get(pt.ele), 2, 1)) ELSE None,
       IF IsSome(pt.time) THEN Get(pt.time) ELSE <<>> >>

\* A variant that makes the name part of the key
waypointKeyWithName(wpt) ==
    << toFixed(wpt.lat, 7, 5), toFixed(wpt.lon, 7, 5), wpt.name >>

\* `${wpt.lat.toFixed(5)},${wpt.lon.toFixed(5)}`
waypointKey(wpt) == << toFixed(wpt.lat, 7, 5), toFixed(wpt.lon, 7, 5) >>

RECURSIVE TrackFilter(_, _, _)
TrackFilter(track, i, seen) ==
    IF i > Len(track) THEN <<>>
    ELSE LET key == trackPointKey(track[i])
         IN  IF key \in seen
             THEN TrackFilter(track, i + 1, seen)
             ELSE <<track[i]>> \o TrackFilter(track, i + 1, seen \cup {key})

deduplicateTrack(track) == TrackFilter(track, 1, {})

RECURSIVE WaypointFilter(_, _, _)
WaypointFilter(waypoints, i, seen) ==
    IF i > Len(waypoints) THEN <<>>
    ELSE LET key == waypointKey(waypoints[i])
         IN  IF key \in seen
             THEN WaypointFilter(waypoints, i + 1, seen)
             ELSE <<waypoints[i]>>
                      \o WaypointFilter(waypoints, i + 1, seen \cup {key})

deduplicateWaypoints(waypoints) == WaypointFilter(waypoints, 1, {})

\* Array.prototype.flat: the concatenation of the member sequences
RECURSIVE Flat(_)
Flat(ss) == IF ss = <<>> THEN <<>> ELSE Head(ss) \o Flat(Tail(ss))

\* Array.prototype.join
RECURSIVE Join(_, _)
Join(ss, sep) ==
    IF ss = <<>> THEN <<>>
    ELSE IF Len(ss) = 1 THEN ss[1]
    ELSE ss[1] \o sep \o Join(Tail(ss), sep)

\* gpxFiles.flatMap((gpx) => gpx.tracks.flat())
AllPoints(files) ==
    Flat([i \in 1..Len(files) |-> Flat(files[i].tracks)])

\* gpxFiles.flatMap((gpx) => gpx.waypoints)
AllWaypoints(files) ==
    Flat([i \in 1..Len(files) |-> files[i].waypoints])

\* gpxFiles.map((gpx) => gpx.name).join(" + ")
JoinedNames(files) ==
    Join([i \in 1..Len(files) |-> files[i].name], <<" + ">>)

\* A variant that keeps every input track as a track of its own
mergeManyKeepTracks(files, now) ==
    LET allWaypoints == AllWaypoints(files)
        names == JoinedNames(files)
    IN  [name |-> <<"merged_", ToString(Len(files)), "_files">>,
         tracks |-> Flat([i \in 1..Len(files) |->
                            [t \in 1..Len(files[i].tracks) |->
                                deduplicateTrack(files[i].tracks[t])]]),
         waypoints |-> deduplicateWaypoints(allWaypoints),
         metadata |-> Some(
             [name |-> Some(<<"Merged: ">> \o names),
              desc |-> Some(<<"Merged GPX file from ",
                              ToString(Len(files)), " files">>),
              time |-> Some(now)])]

\* A variant that removes the duplicates of each input on its own
mergeManyPerFile(files, now) ==
    LET names == JoinedNames(files)
        points == Flat([i \in 1..Len(files) |->
                           deduplicateTrack(Flat(files[i].tracks))])
    IN  [name |-> <<"merged_", ToString(Len(files)), "_files">>,
         tracks |-> IF Len(points) > 0 THEN <<points>> ELSE <<>>,
         waypoints |-> Flat([i \in 1..Len(files) |->
                                deduplicateWaypoints(files[i].waypoints)]),
         metadata |-> Some(
             [name |-> Some(<<"Merged: ">> \o names),
              desc |-> Some(<<"Merged GPX file from ",
                              ToString(Len(files)), " files">>),
              time |-> Some(now)])]

\* mergeGPXData past its two early returns
mergeMany(files, now) ==
    LET allPoints == AllPoints(files)
        uniquePoints == deduplicateTrack(allPoints)
        allWaypoints == AllWaypoints(files)
        uniqueWaypoints == deduplicateWaypoints(allWaypoints)
        names == JoinedNames(files)
    IN  [name |-> <<"merged_", ToString(Len(files)), "_files">>,
         tracks |-> IF Len(uniquePoints) > 0 THEN <<uniquePoints>> ELSE <<>>,
         waypoints |-> uniqueWaypoints,
         metadata |-> Some(
             [name |-> Some(<<"Merged: ">> \o names),
              desc |-> Some(<<"Merged GPX file from ",
                              ToString(Len(files)), " files">>),
              time |-> Some(now)])]

EmptyMerge ==
    [name |-> <<"empty">>, tracks |-> <<>>, waypoints |-> <<>>,
     metadata |-> None]

\* A variant without the early return for a single input
mergeGPXDataNoShortcut(files, now) ==
    IF Len(files) = 0 THEN EmptyMerge ELSE mergeMany(files, now)

\* A variant without the early return for no input
mergeGPXDataNoSentinel(files, now) ==
    IF Len(files) = 1 THEN files[1] ELSE mergeMany(files, now)

mergeGPXData(files, now) ==
    IF Len(files) = 0 THEN EmptyMerge
    ELSE IF Len(files) = 1 THEN files[1]
    ELSE mergeMany(files, now)

---------------------------------------------------------------------------
(* Numbers as text *)

Digits == <<"0", "1", "2", "3", "4", "5", "6", "7", "8", "9">>
IsDigit(c) == \E d \in 1..10 : Digits[d] = c
DigitVal(c) == (CHOOSE d \in 1..10 : Digits[d] = c) - 1

Min(a, b) == IF a < b THEN a ELSE b

RECURSIVE NatToString(_)
NatToString(n) ==
    IF n < 10 THEN <<Digits[n + 1]>>
    ELSE NatToString(n \div 10) \o <<Digits[(n % 10) + 1]>>

\* The decimals of f, a number below 10^width, without trailing zeros
RECURSIVE FracToString(_, _)
FracToString(f, width) ==
    IF f = 0 THEN <<>>
    ELSE <<Digits[(f \div Pow10(width - 1)) + 1]>>
             \o FracToString(f % Pow10(width - 1), width - 1)

\* `${x}` of a number held with `scale` decimals: the shortest decimal that
\* reads back as x. (The exponent form, used below 10^-6, is out of the range
\* of the model's coordinates and elevations.)
NumberToString(x, scale) ==
    IF x = NaN THEN <<"N", "a", "N">>
    ELSE LET int == Abs(x) \div Pow10(scale)
             frac == Abs(x) % Pow10(scale)
         IN  (IF x < 0 THEN <<"-">> ELSE <<>>)
                 \o NatToString(int)
                 \o (IF frac = 0 THEN <<>>
                     ELSE <<".">> \o FracToString(frac, scale))

\* The longest run of digits of s from index i on
RECURSIVE DigitRun(_, _)
DigitRun(s, i) ==
    IF i <= Len(s) /\ IsDigit(s[i]) THEN <<s[i]>> \o DigitRun(s, i + 1)
    ELSE <<>>

RECURSIVE DigitsVal(_)
DigitsVal(ds) ==
    IF ds = <<>> THEN 0
    ELSE 10 * DigitsVal(SubSeq(ds, 1, Len(ds) - 1)) + DigitVal(ds[Len(ds)])

RECURSIVE SkipSpaces(_, _)
SkipSpaces(s, i) ==
    IF i <= Len(s) /\ s[i] = " " THEN SkipSpaces(s, i + 1) ELSE i

\* parseFloat(s), the result held with `scale` decimals: leading blanks are
\* skipped, then the longest prefix that is a decimal number is read; NaN
\* when there is none. (The texts of the model have at most `scale` decimals
\* and no exponent.)
parseFloat(s, scale) ==
    LET start == SkipSpaces(s, 1)
        signed == start <= Len(s) /\ s[start] \in {"-", "+"}
        from == IF signed THEN start + 1 ELSE start
        int == DigitRun(s, from)
        dot == from + Len(int)
        frac == IF dot <= Len(s) /\ s[dot] = "." THEN DigitRun(s, dot + 1)
                ELSE <<>>
        kept == Min(Len(frac), scale)
        value == DigitsVal(int) * Pow10(scale)
                     + DigitsVal(SubSeq(frac, 1, kept)) * Pow10(scale - kept)
    IN  IF int = <<>> /\ frac = <<>> THEN NaN
        ELSE IF signed /\ s[start] = "-" THEN 0 - value
        ELSE value

---------------------------------------------------------------------------
(* GPX parser *)

(***************************************************************************)
(* An XML text is held as what a parser reads from it:                     *)
(*   wellFormed  whether the text is well-formed XML,                      *)
(*   metadata    the metadata element: the text of its name, desc and time *)
(*               children, None for a child that is not there,             *)
(*   wpts        the wpt elements in document order: the lat and lon       *)
(*               attributes and the text of the ele and name children,     *)
(*   trks        the trk elements: the text of the name child and the      *)
(*               trkseg descendants, each the sequence of its trkpt        *)
(*               elements (attributes lat, lon, children ele, time).       *)
(* For a text that is not well-formed these are the elements that precede  *)
(* the first error.                                                        *)
(***************************************************************************)

\* DOMParser.parseFromString(xmlString, "text/xml") never throws. For a text
\* that is not well-formed the document holds a parsererror element and,
\* with the browser, either nothing else or the elements read before the
\* error.
parseFromString(xml, keepsPartial) ==
    IF xml.wellFormed \/ keepsPartial
    THEN [metadata |-> xml.metadata, wpts |-> xml.wpts, trks |-> xml.trks]
    ELSE [metadata |-> None, wpts |-> <<>>, trks |-> <<>>]

\* el?.textContent || undefined
TextOrUndefined(text) == IF IsSome(text) /\ Get(text) # <<>> THEN text ELSE None

\* el.getAttribute(name) || "0"
AttributeOrZero(attr) ==
    IF IsSome(attr) /\ Get(attr) # <<>> THEN Get(attr) ELSE <<"0">>

\* ele ? parseFloat(ele) : undefined
parseEle(text) ==
    IF IsSome(text) /\ Get(text) # <<>> THEN Some(parseFloat(Get(text), 2))
    ELSE None

parseTrkpt(trkpt) ==
    [lat |-> parseFloat(AttributeOrZero(trkpt.lat), 7),
     lon |-> parseFloat(AttributeOrZero(trkpt.lon), 7),
     ele |-> parseEle(trkpt.ele),
     time |-> TextOrUndefined(trkpt.time)]

parseWpt(wpt) ==
    [lat |-> parseFloat(AttributeOrZero(wpt.lat), 7),
     lon |-> parseFloat(AttributeOrZero(wpt.lon), 7),
     ele |-> parseEle(wpt.ele),
     name |-> TextOrUndefined(wpt.name)]

\* One track per trkseg that holds a trkpt, in document order
parseTracks(trks) ==
    LET trksegs == Flat([t \in 1..Len(trks) |-> trks[t].segs])
        points == [k \in 1..Len(trksegs) |->
                      [i \in 1..Len(trksegs[k]) |-> parseTrkpt(trksegs[k][i])]]
    IN  SelectSeq(points, LAMBDA track : Len(track) > 0)

parseMetadata(metadataEl) ==
    IF IsSome(metadataEl)
    THEN [name |-> TextOrUndefined(Get(metadataEl).name),
          desc |-> TextOrUndefined(Get(metadataEl).desc),
          time |-> TextOrUndefined(Get(metadataEl).time)]
    ELSE [name |-> None, desc |-> None, time |-> None]

\* The least index at which pattern occurs in s, 0 when it does not
IndexOf(s, pattern) ==
    LET at == {i \in 1..(Len(s) - Len(pattern) + 1) :
                  SubSeq(s, i, i + Len(pattern) - 1) = pattern}
    IN  IF at = {} THEN 0 ELSE CHOOSE i \in at : \A j \in at : i <= j

\* String.prototype.replace(pattern, replacement) with a string pattern: the
\* first occurrence is replaced, letter case matters
Replace(s, pattern, replacement) ==
    LET i == IndexOf(s, pattern)
    IN  IF i = 0 THEN s
        ELSE SubSeq(s, 1, i - 1) \o replacement
                 \o SubSeq(s, i + Len(pattern), Len(s))

GpxSuffix == <<".", "g", "p", "x">>

UpperCase ==
    <<"A", "B", "C", "D", "E", "F", "G", "H", "I", "J", "K", "L", "M",
      "N", "O", "P", "Q", "R", "S", "T", "U", "V", "W", "X", "Y", "Z">>
LowerCase ==
    <<"a", "b", "c", "d", "e", "f", "g", "h", "i", "j", "k", "l", "m",
      "n", "o", "p", "q", "r", "s", "t", "u", "v", "w", "x", "y", "z">>

\* The lower-case letter of each upper-case letter
LowerCaseOf ==
    [c \in {UpperCase[k] : k \in 1..26} |->
        LowerCase[CHOOSE k \in 1..26 : UpperCase[k] = c]]

\* String.prototype.toLowerCase, on the letters A to Z
toLowerCase(s) ==
    [i \in 1..Len(s) |->
        IF s[i] \in DOMAIN LowerCaseOf THEN LowerCaseOf[s[i]] ELSE s[i]]

\* String.prototype.endsWith
endsWith(s, suffix) ==
    /\ Len(s) >= Len(suffix)
    /\ SubSeq(s, Len(s) - Len(suffix) + 1, Len(s)) = suffix

\* parseGPX(xmlString, fileName); keepsPartial is the browser's choice of
\* what the document of a text that is not well-formed holds
parseGPX(xml, name, keepsPartial) ==
    LET xmlDoc == parseFromString(xml, keepsPartial)
        metadata == parseMetadata(xmlDoc.metadata)
    IN  [name |-> IF IsSome(metadata.name) THEN Get(metadata.name)
                  ELSE Replace(name, GpxSuffix, <<>>),
         tracks |-> parseTracks(xmlDoc.trks),
         waypoints |-> [k \in 1..Len(xmlDoc.wpts) |-> parseWpt(xmlDoc.wpts[k])],
         metadata |-> Some(metadata)]

---------------------------------------------------------------------------
(* XML serializer *)

\* Character data that holds "&" or "<" as it stands ends the
\* well-formedness of the text around it. (No text of the model spells a
\* complete entity reference or element.)
BreaksXml(text) == \E i \in 1..Len(text) : text[i] \in {"&", "<"}

\* The characters of text before the first "&" or "<"
BeforeBreak(text) ==
    LET at == {i \in 1..Len(text) : text[i] \in {"&", "<"}}
    IN  IF at = {} THEN text
        ELSE SubSeq(text, 1, (CHOOSE i \in at : \A j \in at : i <= j) - 1)

\* gpxData.metadata?.[field] || otherwise
MetadataOr(data, field, otherwise) ==
    IF IsSome(data.metadata)
    THEN IF TextOrUndefined(Get(data.metadata)[field]) # None
         THEN Get(Get(data.metadata)[field])
         ELSE otherwise
    ELSE otherwise

\* <wpt lat="${wpt.lat}" lon="${wpt.lon}">, <ele> when wpt.ele !== undefined
wptToXML(wpt) ==
    [lat |-> Some(NumberToString(wpt.lat, 7)),
     lon |-> Some(NumberToString(wpt.lon, 7)),
     ele |-> IF IsSome(wpt.ele) THEN Some(NumberToString(Get(wpt.ele), 2))
             ELSE None,
     name |-> None]

\* <trkpt lat="${pt.lat}" lon="${pt.lon}">, <ele> when pt.ele !== undefined,
\* <time> when pt.time is not empty
trkptToXML(pt) ==
    [lat |-> Some(NumberToString(pt.lat, 7)),
     lon |-> Some(NumberToString(pt.lon, 7)),
     ele |-> IF IsSome(pt.ele) THEN Some(NumberToString(Get(pt.ele), 2))
             ELSE None,
     time |-> TextOrUndefined(pt.time)]

\* <trk><name>Track ${index + 1}</name><trkseg> ... </trkseg></trk>
trkToXML(track, index) ==
    [name |-> Some(<<"Track ", ToString(index)>>),
     segs |-> << [i \in 1..Len(track) |-> trkptToXML(track[i])] >>]

\* The first point of the track whose <time> text breaks the XML, 0 if none
FirstBreak(track) ==
    LET at == {i \in 1..Len(track) :
                  IsSome(track[i].time) /\ BreaksXml(Get(track[i].time))}
    IN  IF at = {} THEN 0 ELSE CHOOSE i \in at : \A j \in at : i <= j

\* The trk elements of the text up to the first <time> that breaks it
trksBeforeBreak(tracks) ==
    LET at == {t \in 1..Len(tracks) : FirstBreak(tracks[t]) > 0}
        last == CHOOSE t \in at : \A u \in at : t <= u
    IN  [t \in 1..last |->
            IF t < last THEN trkToXML(tracks[t], t)
            ELSE trkToXML(SubSeq(tracks[t], 1, FirstBreak(tracks[t]) - 1), t)]

\* A variant that writes the name of a waypoint
wptChildrenWithName(wpt) ==
    (IF IsSome(wpt.ele) THEN <<"ele">> ELSE <<>>)
        \o (IF IsSome(wpt.name) THEN <<"name">> ELSE <<>>)

\* The tags of the children that are written into a <wpt>, in their order
wptChildren(wpt) == IF IsSome(wpt.ele) THEN <<"ele">> ELSE <<>>

\* The tags of the children that are written into a <trkpt>, in their order
trkptChildren(pt) ==
    (IF IsSome(pt.ele) THEN <<"ele">> ELSE <<>>)
        \o (IF TextOrUndefined(pt.time) # None THEN <<"time">> ELSE <<>>)

\* The <wpt> and <trk> tags that the loops write into the text, whether or
\* not a parser gets to read them: the attributes as written, the tags of
\* the children, and for a <trk> the text of its <name> and its <trkseg>s
writtenTags(data) ==
    [wpts |-> [k \in 1..Len(data.waypoints) |->
                  [lat |-> NumberToString(data.waypoints[k].lat, 7),
                   lon |-> NumberToString(data.waypoints[k].lon, 7),
                   children |-> wptChildren(data.waypoints[k])]],
     trks |-> [t \in 1..Len(data.tracks) |->
                  [name |-> <<"Track ", ToString(t)>>,
                   trksegs |->
                       << [i \in 1..Len(data.tracks[t]) |->
                              [lat |-> NumberToString(data.tracks[t][i].lat, 7),
                               lon |-> NumberToString(data.tracks[t][i].lon, 7),
                               children |-> trkptChildren(data.tracks[t][i])]] >>]]]

\* gpxDataToXML(gpxData); now is new Date().toISOString(). The texts are
\* put between the tags as they are, without escaping. The field `written`
\* holds the tags of the text, the other fields what a parser reads.
gpxDataToXML(data, now) ==
    LET name == MetadataOr(data, "name", data.name)
        desc == MetadataOr(data, "desc", <<>>)
        time == MetadataOr(data, "time", now)
        wpts == [k \in 1..Len(data.waypoints) |-> wptToXML(data.waypoints[k])]
        trks == [t \in 1..Len(data.tracks) |-> trkToXML(data.tracks[t], t)]
        read ==
            IF BreaksXml(name)
            THEN [wellFormed |-> FALSE,
                  metadata |-> Some([name |-> Some(BeforeBreak(name)),
                                     desc |-> None, time |-> None]),
                  wpts |-> <<>>, trks |-> <<>>]
            ELSE IF BreaksXml(desc)
            THEN [wellFormed |-> FALSE,
                  metadata |-> Some([name |-> Some(name),
                                     desc |-> Some(BeforeBreak(desc)),
                                     time |-> None]),
                  wpts |-> <<>>, trks |-> <<>>]
            ELSE IF BreaksXml(time)
            THEN [wellFormed |-> FALSE,
                  metadata |-> Some([name |-> Some(name), desc |-> Some(desc),
                                     time |-> Some(BeforeBreak(time))]),
                  wpts |-> <<>>, trks |-> <<>>]
            ELSE IF \E t \in 1..Len(data.tracks) : FirstBreak(data.tracks[t]) > 0
            THEN [wellFormed |-> FALSE,
                  metadata |-> Some([name |-> Some(name), desc |-> Some(desc),
                                     time |-> Some(time)]),
                  wpts |-> wpts, trks |-> trksBeforeBreak(data.tracks)]
            ELSE [wellFormed |-> TRUE,
                  metadata |-> Some([name |-> Some(name), desc |-> Some(desc),
                                     time |-> Some(time)]),
                  wpts |-> wpts, trks |-> trks]
    IN  [wellFormed |-> read.wellFormed, metadata |-> read.metadata,
         wpts |-> read.wpts, trks |-> read.trks,
         written |-> writtenTags(data)]

---------------------------------------------------------------------------
(* Inputs of the merge engine *)

MaxItems == 3

\* 50 degrees north, 14 degrees east, and neighbours 4 and 6 units of 10^-7
\* (track points) or of 10^-6 (waypoints) degree away: toFixed rounds the
\* first to the base value and the second away from it.
BaseLat == 5 * Pow10(8)
BaseLon == 14 * Pow10(7)
PointLatVals == {BaseLat, BaseLat + 4, BaseLat + 6}
PointLonVals == {BaseLon, BaseLon + 6}
PointEleVals == {None, Some(20000), Some(20004)}
PointTimeVals == {None, Some(<<"2024-01-01T10:00:00Z">>)}

BasePoint == [lat |-> BaseLat, lon |-> BaseLon, ele |-> None, time |-> None]

\* The number of fields in which two records over the same fields differ
Differences(r, q) == Cardinality({f \in DOMAIN r : r[f] # q[f]})

\* Track points that differ from the base point in at most one field
PointVals ==
    {p \in [lat : PointLatVals, lon : PointLonVals,
            ele : PointEleVals, time : PointTimeVals] :
        Differences(p, BasePoint) <= 1}

WaypointLatVals == {BaseLat, BaseLat + 40, BaseLat + 60}
WaypointLonVals == {BaseLon}
WaypointEleVals == {None, Some(30000)}
WaypointNameVals == {None, Some(<<"S", "t", "a", "r", "t">>)}

BaseWaypoint ==
    [lat |-> BaseLat, lon |-> BaseLon, ele |-> None, name |-> None]

WaypointVals ==
    {w \in [lat : WaypointLatVals, lon : WaypointLonVals,
            ele : WaypointEleVals, name : WaypointNameVals] :
        Differences(w, BaseWaypoint) <= 1}

\* The display name of the i-th input, as in the tests ("Route 1")
GpxName(i) == <<"R", "o", "u", "t", "e", " ", ToString(i)>>

\* new Date().toISOString() at the time of the call
NowVals == {<<"2026-01-01T00:00:00.000Z">>}

\* The track points and waypoints held by a list of files
TotalItems(files) ==
    Len(AllPoints(files)) + Len(AllWaypoints(files))

\* A GPXData literal with no track and no waypoint yet, as in the tests
EmptyGpx(name) ==
    [name |-> name, tracks |-> <<>>, waypoints |-> <<>>, metadata |-> None]

\* p appended to the last track of gpx, or as a new track after it
WithPoint(gpx, p, newTrack) ==
    IF newTrack \/ gpx.tracks = <<>>
    THEN [gpx EXCEPT !.tracks = Append(@, <<p>>)]
    ELSE [gpx EXCEPT !.tracks[Len(gpx.tracks)] = Append(@, p)]

\* The values of an upload slot: null, a hole of the array, undefined (a
\* hole that was copied), or a GPXData
Null == [kind |-> "null"]
Hole == [kind |-> "hole"]
Undefined == [kind |-> "undefined"]
Loaded(data) == [kind |-> "data", data |-> data]

\* useState([null, null]), useState(null) in the zone of each slot, and no
\* file being read
InitialSlots ==
    /\ gpxFiles = <<Null, Null>>
    /\ error = <<None, None>>
    /\ reads = <<>>

\* No elevation chart
IdleChart ==
    /\ chartFiles = <<>>
    /\ rendered = <<>>
    /\ chartData = <<>>
    /\ sampled = <<>>

\* No call of the parser or the serializer
IdleParse ==
    /\ gpxData = <<>>
    /\ xmlString = <<>>
    /\ fileName = <<>>
    /\ parsed = <<>>

InitMerge ==
    /\ gpxIn = <<>>
    /\ merged = None
    /\ inSteps = None
    /\ IdleParse
    /\ InitialSlots
    /\ IdleChart

NewFile ==
    /\ merged = None
    /\ IF gpxIn = <<>> THEN TRUE ELSE TotalItems(<<gpxIn[Len(gpxIn)]>>) > 0
    /\ gpxIn' = Append(gpxIn, EmptyGpx(GpxName(Len(gpxIn) + 1)))
    /\ UNCHANGED <<merged, inSteps, parseVars, slotVars, chartVars>>

AddPoint ==
    /\ merged = None
    /\ gpxIn # <<>>
    /\ TotalItems(gpxIn) < MaxItems
    /\ \E p \in PointVals, newTrack \in BOOLEAN :
           gpxIn' = [gpxIn EXCEPT ![Len(gpxIn)] = WithPoint(@, p, newTrack)]
    /\ UNCHANGED <<merged, inSteps, parseVars, slotVars, chartVars>>

AddWaypoint ==
    /\ merged = None
    /\ gpxIn # <<>>
    /\ TotalItems(gpxIn) < MaxItems
    /\ \E w \in WaypointVals :
           gpxIn' = [gpxIn EXCEPT ![Len(gpxIn)].waypoints = Append(@, w)]
    /\ UNCHANGED <<merged, inSteps, parseVars, slotVars, chartVars>>

Merge ==
    /\ merged = None
    /\ \E now \in NowVals : merged' = Some(mergeGPXData(gpxIn, now))
    /\ UNCHANGED <<gpxIn, inSteps, parseVars, slotVars, chartVars>>

NextMerge == NewFile \/ AddPoint \/ AddWaypoint \/ Merge

SpecMerge == InitMerge /\ [][NextMerge]_vars

\* Three files are merged at once, and the first two are merged and their
\* result is merged with the third
MergeInSteps ==
    /\ merged = None
    /\ Len(gpxIn) = 3
    /\ \E now \in NowVals :
           LET first == mergeGPXData(<<gpxIn[1], gpxIn[2]>>, now)
           IN  /\ merged' = Some(mergeGPXData(gpxIn, now))
               /\ inSteps' =
                      Some([first |-> first,
                            second |-> mergeGPXData(<<first, gpxIn[3]>>, now)])
    /\ UNCHANGED <<gpxIn, parseVars, slotVars, chartVars>>

NextRegroup == NewFile \/ AddPoint \/ AddWaypoint \/ MergeInSteps

SpecRegroup == InitMerge /\ [][NextRegroup]_vars

---------------------------------------------------------------------------
(* Claims about the merge engine, checked under SpecMerge *)

\* x, held in units of which m make one unit of the result, rounded to the
\* nearest unit of the result
Round(x, m) ==
    IF x >= 0 THEN (2 * x + m) \div (2 * m)
    ELSE 0 - ((2 * (0 - x) + m) \div (2 * m))

\* TrackPoint identity: lat and lon to 6 decimals, elevation to 1 decimal or
\* absent, the raw timestamp or absent
PointIdentity(p) ==
    [lat |-> Round(p.lat, 10), lon |-> Round(p.lon, 10),
     ele |-> IF p.ele = None THEN None ELSE Some(Round(Get(p.ele), 10)),
     time |-> p.time]

\* Waypoint identity: lat and lon to 5 decimals
WaypointIdentity(w) == [lat |-> Round(w.lat, 100), lon |-> Round(w.lon, 100)]

\* The places of the track points of a list of files: file, track, point
PointPlaces(files) ==
    {<<f, t, i>> : f \in DOMAIN files, t \in 1..MaxItems, i \in 1..MaxItems}
        \cap {pl \in (DOMAIN files) \X (1..MaxItems) \X (1..MaxItems) :
                 /\ pl[2] \in DOMAIN files[pl[1]].tracks
                 /\ pl[3] \in DOMAIN files[pl[1]].tracks[pl[2]]}

WaypointPlaces(files) ==
    {pl \in (DOMAIN files) \X (1..MaxItems) :
        pl[2] \in DOMAIN files[pl[1]].waypoints}

\* File-then-track-then-point order of two places
Earlier(a, b) ==
    \E k \in DOMAIN a :
        /\ a[k] < b[k]
        /\ \A j \in 1..(k - 1) : a[j] = b[j]

\* The places in that order
InOrder(places) ==
    [k \in 1..Cardinality(places) |->
        CHOOSE pl \in places :
            Cardinality({q \in places : Earlier(q, pl)}) = k - 1]

InputPoints(files) ==
    LET order == InOrder(PointPlaces(files))
    IN  [k \in DOMAIN order |->
            files[order[k][1]].tracks[order[k][2]][order[k][3]]]

InputWaypoints(files) ==
    LET order == InOrder(WaypointPlaces(files))
    IN  [k \in DOMAIN order |-> files[order[k][1]].waypoints[order[k][2]]]

InputTrackCount(files) ==
    Cardinality({pl \in (DOMAIN files) \X (1..MaxItems) :
                    pl[2] \in DOMAIN files[pl[1]].tracks})

\* The first index of s whose identity is that of x
FirstWith(s, Identity(_), x) ==
    CHOOSE k \in DOMAIN s :
        /\ Identity(s[k]) = Identity(x)
        /\ \A j \in 1..(k - 1) : Identity(s[j]) # Identity(x)

\* out holds one member per identity of all: the first with that identity,
\* the members in the order of all
FirstOccurrences(out, all, Identity(_)) ==
    /\ \A i, j \in DOMAIN out : i # j => Identity(out[i]) # Identity(out[j])
    /\ {Identity(out[j]) : j \in DOMAIN out}
           = {Identity(all[k]) : k \in DOMAIN all}
    /\ \A j \in DOMAIN out : out[j] = all[FirstWith(all, Identity, out[j])]
    /\ \A i, j \in DOMAIN out :
           i < j => FirstWith(all, Identity, out[i])
                        < FirstWith(all, Identity, out[j])

MergedOfMany == merged # None /\ Len(gpxIn) >= 2

C2_TrackPointsDeduplicated ==
    MergedOfMany /\ Get(merged).tracks # <<>> =>
        LET track == Get(merged).tracks[1]
            all == InputPoints(gpxIn)
        IN  /\ FirstOccurrences(track, all, PointIdentity)
            /\ \A k, l \in DOMAIN all :
                   /\ all[k].time # all[l].time
                   /\ [all[k] EXCEPT !.time = None]
                          = [all[l] EXCEPT !.time = None]
                   => \E i, j \in DOMAIN track :
                          /\ i # j
                          /\ PointIdentity(track[i]) = PointIdentity(all[k])
                          /\ PointIdentity(track[j]) = PointIdentity(all[l])

\* A point, its copy with a timestamp, and a later point that differs from
\* the first in the seventh decimal of the latitude only: two are kept
C2_Witness ==
    /\ MergedOfMany
    /\ LET all == InputPoints(gpxIn)
       IN  /\ Len(all) = 3
           /\ all[2] = [all[1] EXCEPT !.time = Some(<<"2024-01-01T10:00:00Z">>)]
           /\ all[3] # all[1]
           /\ PointIdentity(all[3]) = PointIdentity(all[1])
           /\ Get(merged).tracks = << <<all[1], all[2]>> >>

\* C3: in the waypoints of a merge of two or more inputs no two share the
\* Waypoint identity; of the input waypoints with one identity the first in
\* input order is kept, whatever the names and elevations, and the kept
\* waypoints are in first-seen order.
C3_WaypointsDeduplicated ==
    MergedOfMany =>
        FirstOccurrences(Get(merged).waypoints, InputWaypoints(gpxIn),
                         WaypointIdentity)

\* Two waypoints of two files at one rounded coordinate under different
\* names, then a third elsewhere: the first and the third are kept
C3_Witness ==
    /\ MergedOfMany
    /\ LET all == InputWaypoints(gpxIn)
       IN  /\ Len(all) = 3
           /\ all[1].name # all[2].name
           /\ WaypointIdentity(all[1]) = WaypointIdentity(all[2])
           /\ WaypointPlaces(gpxIn) = {<<1, 1>>, <<2, 1>>, <<2, 2>>}
           /\ Get(merged).waypoints = <<all[1], all[3]>>

\* C4: a merge of two or more inputs has as many tracks as its inputs have
\* together: two files of one track of one point each, at different
\* coordinates, give two tracks.
C4_TracksKeptApart ==
    MergedOfMany => Len(Get(merged).tracks) = InputTrackCount(gpxIn)

\* C5: a merge of exactly one input is that input, name, tracks, waypoints
\* and metadata, with nothing removed.
C5_SingleInputUnchanged ==
    merged # None /\ Len(gpxIn) = 1 => Get(merged) = gpxIn[1]

\* One input of two tracks that hold the same point twice
C5_Witness ==
    /\ merged # None
    /\ Len(gpxIn) = 1
    /\ Len(gpxIn[1].tracks) = 2
    /\ \E k, l \in DOMAIN InputPoints(gpxIn) :
           k # l /\ InputPoints(gpxIn)[k] = InputPoints(gpxIn)[l]
    /\ Len(Get(merged).tracks) = 2

\* C18: the merge of no input returns the GPXData named "empty" with no
\* track and no waypoint; the call raises no error.
C18_EmptyMergeIsSentinel ==
    (merged # None /\ Len(gpxIn) = 0) =>
        /\ Get(merged).name = <<"empty">>
        /\ Len(Get(merged).tracks) = 0
        /\ Len(Get(merged).waypoints) = 0

\* mergeGPXData([]) has returned
C18_Witness == merged # None /\ gpxIn = <<>>

\* Whether a GPXData holds no track and no waypoint
EmptyContent(data) == Len(data.tracks) = 0 /\ Len(data.waypoints) = 0

\* C22: for any GPXData A, B, C the merge of the merge of A and B with C has
\* the tracks and the waypoints of the merge of A, B and C; and the merge
\* of a merged result with a file without tracks and waypoints has the
\* tracks and waypoints of the merged result.
C22_MergeAssociativeOnContent ==
    inSteps # None =>
        /\ Get(inSteps).second.tracks = Get(merged).tracks
        /\ Get(inSteps).second.waypoints = Get(merged).waypoints
        /\ EmptyContent(gpxIn[3]) =>
               /\ Get(inSteps).second.tracks = Get(inSteps).first.tracks
               /\ Get(inSteps).second.waypoints = Get(inSteps).first.waypoints

\* Three files with a track point each were merged both ways, and the
\* point of the second file repeats that of the first
C22_Witness ==
    /\ inSteps # None
    /\ \A f \in 1..3 : Len(AllPoints(<<gpxIn[f]>>)) = 1
    /\ Len(Get(inSteps).first.tracks[1]) = 1
    /\ Len(Get(inSteps).second.tracks[1]) = 2

---------------------------------------------------------------------------
(* The parser on GPX texts *)

MaxNodes == 3

TrkptLatVals ==
    {Some(<<"5", "0", ".", "5">>), None, Some(<<>>), Some(<<"a", "b", "c">>), Some(<<" ", "5", "0", ".", "5", "N">>)}
TrkptLonVals == {Some(<<"1", "4", ".", "2", "5">>), None, Some(<<"a", "b", "c">>)}
EleTextVals == {None, Some(<<>>), Some(<<"2", "0", "0">>), Some(<<"h", "i", "g", "h">>)}
TimeTextVals == {None, Some(<<>>), Some(<<"2024-01-01T10:00:00Z">>)}

BaseTrkpt ==
    [lat |-> Some(<<"5", "0", ".", "5">>), lon |-> Some(<<"1", "4", ".", "2", "5">>), ele |-> None, time |-> None]

\* trkpt elements that differ from the base element in at most one place
TrkptVals ==
    {el \in [lat : TrkptLatVals, lon : TrkptLonVals,
             ele : EleTextVals, time : TimeTextVals] :
        Differences(el, BaseTrkpt) <= 1}

WptLatVals == {Some(<<"5", "0", ".", "5">>), None, Some(<<"a", "b", "c">>)}
WptLonVals == {Some(<<"1", "4", ".", "2", "5">>), None, Some(<<"a", "b", "c">>)}
WptEleVals == {None, Some(<<"3", "0", "0">>)}
WptNameVals == {None, Some(<<>>), Some(<<"S", "u", "m", "m", "i", "t">>)}

BaseWpt ==
    [lat |-> Some(<<"5", "0", ".", "5">>), lon |-> Some(<<"1", "4", ".", "2", "5">>), ele |-> None, name |-> None]

WptVals ==
    {el \in [lat : WptLatVals, lon : WptLonVals,
             ele : WptEleVals, name : WptNameVals] :
        Differences(el, BaseWpt) <= 1}

\* <metadata> with no name, an empty name or the name "Test Track"
MetadataVals ==
    {[name |-> n, desc |-> None, time |-> None] :
        n \in {None, Some(<<>>), Some(<<"T", "e", "s", "t", " ", "T", "r", "a", "c", "k">>)}}

FileNames ==
    {<<"m", "y", "-", "r", "o", "u", "t", "e", ".", "g", "p", "x">>, <<"T", "r", "i", "p", ".", "G", "P", "X">>, <<"a", ".", "g", "p", "x", ".", "b", ".", "g", "p", "x">>, <<"n", "o", "t", "e", "s", ".", "t", "x", "t">>, <<"t", "r", "a", "c", "k">>}

\* <gpx></gpx>
EmptyXml ==
    [wellFormed |-> TRUE, metadata |-> None, wpts |-> <<>>, trks |-> <<>>]

RECURSIVE Sum(_)
Sum(ns) == IF ns = <<>> THEN 0 ELSE Head(ns) + Sum(Tail(ns))

\* The wpt, trk, trkseg and trkpt elements of a text
Nodes(xml) ==
    Len(xml.wpts)
        + Sum([t \in 1..Len(xml.trks) |->
                  1 + Sum([k \in 1..Len(xml.trks[t].segs) |->
                              1 + Len(xml.trks[t].segs[k])])])

\* No call of the merge
IdleMerge ==
    /\ gpxIn = <<>>
    /\ merged = None
    /\ inSteps = None

InitParse ==
    /\ IdleMerge
    /\ InitialSlots
    /\ IdleChart
    /\ gpxData = None
    /\ xmlString = Some(EmptyXml)
    /\ fileName = <<>>
    /\ parsed = None

\* The text may grow while it is well-formed and not yet parsed
Writable ==
    /\ parsed = None
    /\ Get(xmlString).wellFormed

WriteMetadata ==
    /\ Writable
    /\ Get(xmlString).metadata = None
    /\ \E m \in MetadataVals :
           xmlString' = Some([Get(xmlString) EXCEPT !.metadata = Some(m)])
    /\ UNCHANGED <<chartVars, mergeVars, slotVars, gpxData, fileName, parsed>>

OpenTrk ==
    /\ Writable
    /\ Nodes(Get(xmlString)) < MaxNodes
    /\ xmlString' = Some([Get(xmlString) EXCEPT
                             !.trks = Append(@, [name |-> None, segs |-> <<>>])])
    /\ UNCHANGED <<chartVars, mergeVars, slotVars, gpxData, fileName, parsed>>

OpenTrkseg ==
    /\ Writable
    /\ Nodes(Get(xmlString)) < MaxNodes
    /\ Get(xmlString).trks # <<>>
    /\ xmlString' = Some([Get(xmlString) EXCEPT
                             !.trks[Len(Get(xmlString).trks)].segs =
                                 Append(@, <<>>)])
    /\ UNCHANGED <<chartVars, mergeVars, slotVars, gpxData, fileName, parsed>>

WriteTrkpt ==
    /\ Writable
    /\ Nodes(Get(xmlString)) < MaxNodes
    /\ Get(xmlString).trks # <<>>
    /\ LET t == Len(Get(xmlString).trks)
           k == Len(Get(xmlString).trks[t].segs)
       IN  /\ k > 0
           /\ \E el \in TrkptVals :
                  xmlString' = Some([Get(xmlString) EXCEPT
                                        !.trks[t].segs[k] = Append(@, el)])
    /\ UNCHANGED <<chartVars, mergeVars, slotVars, gpxData, fileName, parsed>>

WriteWpt ==
    /\ Writable
    /\ Nodes(Get(xmlString)) < MaxNodes
    /\ \E el \in WptVals :
           xmlString' = Some([Get(xmlString) EXCEPT !.wpts = Append(@, el)])
    /\ UNCHANGED <<chartVars, mergeVars, slotVars, gpxData, fileName, parsed>>

\* The text goes on with something that is not XML (an unclosed tag, a
\* stray "<"): what was written so far precedes the error
Corrupt ==
    /\ Writable
    /\ xmlString' = Some([Get(xmlString) EXCEPT !.wellFormed = FALSE])
    /\ UNCHANGED <<chartVars, mergeVars, slotVars, gpxData, fileName, parsed>>

Parse ==
    /\ parsed = None
    /\ \E name \in FileNames, keepsPartial \in BOOLEAN :
           /\ fileName' = name
           /\ parsed' = Some(parseGPX(Get(xmlString), name, keepsPartial))
    /\ UNCHANGED <<chartVars, mergeVars, slotVars, gpxData, xmlString>>

NextParse ==
    \/ WriteMetadata
    \/ OpenTrk
    \/ OpenTrkseg
    \/ WriteTrkpt
    \/ WriteWpt
    \/ Corrupt
    \/ Parse

SpecParse == InitParse /\ [][NextParse]_vars

---------------------------------------------------------------------------
(* Claims about the parser, checked under SpecParse *)

\* The trkpt elements of a text in document order
AllTrkpts(xml) ==
    Flat(Flat([t \in 1..Len(xml.trks) |-> xml.trks[t].segs]))

\* An attribute that is not there, or whose text does not begin, after
\* blanks and a sign, with a digit or with a point and a digit
NotANumber(attr) ==
    IF attr = None THEN TRUE
    ELSE LET text == Get(attr)
             start == SkipSpaces(text, 1)
             from == IF start <= Len(text) /\ text[start] \in {"-", "+"}
                     THEN start + 1 ELSE start
         IN  ~ \/ from <= Len(text) /\ IsDigit(text[from])
               \/ /\ from + 1 <= Len(text)
                  /\ text[from] = "."
                  /\ IsDigit(text[from + 1])

\* C8: the parse of a well-formed text gives one track point per trkpt and
\* one waypoint per wpt, no latitude or longitude of which is NaN, and the
\* coordinate of a lat or lon attribute that is missing or not numeric is 0.
C8_BadCoordinateIsZero ==
    (parsed # None /\ Get(xmlString).wellFormed) =>
        LET trkpts == AllTrkpts(Get(xmlString))
            points == Flat(Get(parsed).tracks)
            wpts == Get(xmlString).wpts
            waypoints == Get(parsed).waypoints
        IN  /\ Len(points) = Len(trkpts)
            /\ Len(waypoints) = Len(wpts)
            /\ \A i \in 1..Len(points) :
                   /\ points[i].lat # NaN
                   /\ points[i].lon # NaN
                   /\ NotANumber(trkpts[i].lat) => points[i].lat = 0
                   /\ NotANumber(trkpts[i].lon) => points[i].lon = 0
            /\ \A i \in 1..Len(waypoints) :
                   /\ waypoints[i].lat # NaN
                   /\ waypoints[i].lon # NaN
                   /\ NotANumber(wpts[i].lat) => waypoints[i].lat = 0
                   /\ NotANumber(wpts[i].lon) => waypoints[i].lon = 0

\* The name without a trailing ".gpx" in any letter case
WithoutGpxSuffix(name) ==
    IF Len(name) >= 4
          /\ toLowerCase(SubSeq(name, Len(name) - 3, Len(name))) = GpxSuffix
    THEN SubSeq(name, 1, Len(name) - 4)
    ELSE name

\* C9: the name of the parse of a well-formed text is the text of the
\* metadata name when there is one, else the file name without a trailing
\* ".gpx" in any letter case ("Trip.GPX" gives "Trip", "a.gpx.b.gpx" gives
\* "a.gpx.b"), and the file name as it is when it has no such suffix.
C9_NameFromMetadataOrFileName ==
    (parsed # None /\ Get(xmlString).wellFormed) =>
        LET metadataEl == Get(xmlString).metadata
        IN  Get(parsed).name =
                IF IsSome(metadataEl) /\ IsSome(Get(metadataEl).name)
                      /\ Get(Get(metadataEl).name) # <<>>
                THEN Get(Get(metadataEl).name)
                ELSE WithoutGpxSuffix(fileName)

---------------------------------------------------------------------------
(* The serializer and the parser on its output *)

MaxDataItems == 2

\* The track points of the merge inputs and one south of the equator
DataPointVals ==
    PointVals
        \cup {[lat |-> 0 - 338688000, lon |-> 1512093000,
               ele |-> None, time |-> None]}

\* Display names: plain, and with an ampersand
DataNameVals == {<<"T", "r", "i", "p">>, <<"H", "i", "k", "e", " ", "&", " ", "B", "i", "k", "e">>}

\* The metadata of a GPXData: none (an object literal, as in the tests), or
\* the metadata object of parseGPX, without a name or with the name
DataMetadataVals(name) ==
    {None,
     Some([name |-> None, desc |-> None, time |-> None]),
     Some([name |-> Some(name), desc |-> None, time |-> None])}

InitRoundTrip ==
    /\ IdleMerge
    /\ InitialSlots
    /\ IdleChart
    /\ \E name \in DataNameVals :
           \E metadata \in DataMetadataVals(name) :
               gpxData = Some([EmptyGpx(name) EXCEPT !.metadata = metadata])
    /\ xmlString = None
    /\ fileName = <<>>
    /\ parsed = None

DataAddPoint ==
    /\ xmlString = None
    /\ TotalItems(<<Get(gpxData)>>) < MaxDataItems
    /\ \E p \in DataPointVals, newTrack \in BOOLEAN :
           gpxData' = Some(WithPoint(Get(gpxData), p, newTrack))
    /\ UNCHANGED <<chartVars, mergeVars, slotVars, xmlString, fileName, parsed>>

DataAddWaypoint ==
    /\ xmlString = None
    /\ TotalItems(<<Get(gpxData)>>) < MaxDataItems
    /\ \E w \in WaypointVals :
           gpxData' = Some([Get(gpxData) EXCEPT !.waypoints = Append(@, w)])
    /\ UNCHANGED <<chartVars, mergeVars, slotVars, xmlString, fileName, parsed>>

Serialize ==
    /\ xmlString = None
    /\ \E now \in NowVals :
           xmlString' = Some(gpxDataToXML(Get(gpxData), now))
    /\ UNCHANGED <<chartVars, mergeVars, slotVars, gpxData, fileName, parsed>>

\* The serialized text is parsed under any file name
Reparse ==
    /\ xmlString # None
    /\ parsed = None
    /\ \E name \in FileNames, keepsPartial \in BOOLEAN :
           /\ fileName' = name
           /\ parsed' = Some(parseGPX(Get(xmlString), name, keepsPartial))
    /\ UNCHANGED <<chartVars, mergeVars, slotVars, gpxData, xmlString>>

NextRoundTrip == DataAddPoint \/ DataAddWaypoint \/ Serialize \/ Reparse

SpecRoundTrip == InitRoundTrip /\ [][NextRoundTrip]_vars

---------------------------------------------------------------------------
(* Claims about the serializer, checked under SpecRoundTrip *)

\* No track point carries an elevation or a time, no waypoint an elevation
\* or a name
OnlyLatLon(data) ==
    /\ \A t \in 1..Len(data.tracks) : \A i \in 1..Len(data.tracks[t]) :
           data.tracks[t][i].ele = None /\ data.tracks[t][i].time = None
    /\ \A k \in 1..Len(data.waypoints) :
           data.waypoints[k].ele = None /\ data.waypoints[k].name = None

\* C6: for a GPXData whose track points and waypoints carry only lat and
\* lon, the parse of its serialization under any file name has the same
\* tracks, point for point, and the same waypoints.
C6_RoundTrip ==
    (parsed # None /\ OnlyLatLon(Get(gpxData))) =>
        /\ Get(parsed).tracks = Get(gpxData).tracks
        /\ Get(parsed).waypoints = Get(gpxData).waypoints

\* The tags in a sequence of tags
TagsOf(children) == {children[i] : i \in DOMAIN children}

---------------------------------------------------------------------------
(* Geometry *)

\* Math.sqrt, rounded down to a whole number
RECURSIVE ISqrt(_)
ISqrt(x) ==
    IF x < 2 THEN x
    ELSE LET low == 2 * ISqrt(x \div 4)
         IN  IF (low + 1) * (low + 1) > x THEN low ELSE low + 1

\* Earth's radius in km
R == 6371

\* haversineDistance(lat1, lon1, lat2, lon2), in micrometres. For points
\* within 10^-5 degree of each other near 50 degrees north the formula of
\* the source is R * sqrt(dLat^2 + cos(lat)^2 * dLon^2) with the angles in
\* radians, to far less than a micrometre; cos(50 degrees)^2 is 0.4132, and
\* a unit of 10^-7 degree is R * 1.74533 micrometres long. The root is
\* taken to 1/100 of a unit.
haversineDistance(lat1, lon1, lat2, lon2) ==
    LET dLat == lat2 - lat1
        dLon == lon2 - lon1
    IN  (ISqrt(10000 * dLat * dLat + 4132 * dLon * dLon)
            * ((R * 174533) \div 10000)) \div 1000

\* A variant that measures the whole list of points as one track
calculateDistanceFlat(tracks) ==
    LET points == Flat(tracks)
    IN  Sum([i \in 1..(Len(points) - 1) |->
                haversineDistance(points[i].lat, points[i].lon,
                                  points[i + 1].lat, points[i + 1].lon)])

\* calculateDistance(points) from index i on, with the distance so far
RECURSIVE calculateDistanceFrom(_, _, _)
calculateDistanceFrom(points, i, distance) ==
    IF i > Len(points) THEN distance
    ELSE calculateDistanceFrom(points, i + 1,
             distance + haversineDistance(points[i - 1].lat, points[i - 1].lon,
                                          points[i].lat, points[i].lon))

calculateDistance(points) == calculateDistanceFrom(points, 2, 0)

\* gpxData.tracks.reduce((sum, track) => sum + calculateDistance(track), 0)
\* from track t on
RECURSIVE totalDistanceFrom(_, _, _)
totalDistanceFrom(tracks, t, sum) ==
    IF t > Len(tracks) THEN sum
    ELSE totalDistanceFrom(tracks, t + 1, sum + calculateDistance(tracks[t]))

\* A variant that adds the distance between the tracks
getTotalDistanceFlat(data) == calculateDistanceFlat(data.tracks)

getTotalDistance(data) == totalDistanceFrom(data.tracks, 1, 0)

---------------------------------------------------------------------------
(* Elevation profile: what ElevationChart computes from its files *)

\* A kilometre, the unit of the chart's distances, in micrometres
Kilometre == Pow10(9)

\* trackPointKey(lat, lon, ele) of the chart: no timestamp
elevationTrackPointKey(lat, lon, ele) ==
    <<toFixed(lat, 7, 6), toFixed(lon, 7, 6),
      IF IsSome(ele) THEN Some(toFixed(Get(ele), 2, 1)) ELSE None>>

\* waypointKey(lat, lon) of the chart
elevationWaypointKey(lat, lon) == <<toFixed(lat, 7, 5), toFixed(lon, 7, 5)>>

\* The track points that the nested forEach loops visit from file i on, in
\* their order, each with fileIndex
RECURSIVE IndexedPoints(_, _)
IndexedPoints(files, i) ==
    IF i > Len(files) THEN <<>>
    ELSE LET points == Flat(files[i].tracks)
         IN  [j \in 1..Len(points) |->
                 [point |-> points[j], fileIndex |-> i - 1]]
             \o IndexedPoints(files, i + 1)

\* A variant of the first pass in which a point without elevation becomes
\* the previous point
RECURSIVE firstPassAnyPrev(_, _, _, _, _)
firstPassAnyPrev(points, i, seenTrackPoints, prevPoint, cumulativeDistance) ==
    IF i > Len(points) THEN <<>>
    ELSE
      LET point == points[i].point
          key == elevationTrackPointKey(point.lat, point.lon, point.ele)
          distance ==
              IF IsSome(prevPoint)
              THEN cumulativeDistance
                     + haversineDistance(Get(prevPoint).lat, Get(prevPoint).lon,
                                         point.lat, point.lon)
              ELSE cumulativeDistance
      IN  IF IsSome(point.ele) /\ key \in seenTrackPoints
          THEN firstPassAnyPrev(points, i + 1, seenTrackPoints, prevPoint,
                                cumulativeDistance)
          ELSE (IF IsSome(point.ele)
                THEN <<[lat |-> point.lat, lon |-> point.lon,
                        distance |-> distance, elevation |-> Get(point.ele),
                        fileIndex |-> points[i].fileIndex]>>
                ELSE <<>>)
               \o firstPassAnyPrev(points, i + 1, seenTrackPoints \union {key},
                      Some([lat |-> point.lat, lon |-> point.lon]), distance)

\* The first pass from point i on: the retained points, each with the
\* fields of its entry in trackPoints and in data
RECURSIVE firstPass(_, _, _, _, _)
firstPass(points, i, seenTrackPoints, prevPoint, cumulativeDistance) ==
    IF i > Len(points) THEN <<>>
    ELSE
      LET point == points[i].point
          key == elevationTrackPointKey(point.lat, point.lon, point.ele)
          distance ==
              IF IsSome(prevPoint)
              THEN cumulativeDistance
                     + haversineDistance(Get(prevPoint).lat, Get(prevPoint).lon,
                                         point.lat, point.lon)
              ELSE cumulativeDistance
      IN  IF ~IsSome(point.ele) \/ key \in seenTrackPoints
          THEN firstPass(points, i + 1, seenTrackPoints, prevPoint,
                         cumulativeDistance)
          ELSE <<[lat |-> point.lat, lon |-> point.lon,
                  distance |-> distance, elevation |-> Get(point.ele),
                  fileIndex |-> points[i].fileIndex]>>
               \o firstPass(points, i + 1, seenTrackPoints \union {key},
                      Some([lat |-> point.lat, lon |-> point.lon]), distance)

\* const trackPoints
trackPointsOf(retained) ==
    [i \in 1..Len(retained) |->
        [lat |-> retained[i].lat, lon |-> retained[i].lon,
         distance |-> retained[i].distance,
         elevation |-> retained[i].elevation]]

\* const data
dataOf(retained) ==
    [i \in 1..Len(retained) |->
        [distance |-> retained[i].distance,
         elevation |-> retained[i].elevation,
         fileIndex |-> retained[i].fileIndex]]

\* dLat * dLat + dLon * dLon: Math.sqrt of it is the larger for the larger
\* of two of these
PlanarSquare(wpt, tp) ==
    (wpt.lat - tp.lat) * (wpt.lat - tp.lat)
        + (wpt.lon - tp.lon) * (wpt.lon - tp.lon)

\* A variant of the search that prefers the latest of the nearest points
RECURSIVE nearestLatest(_, _, _, _, _)
nearestLatest(wpt, trackPoints, idx, nearestIdx, nearestDist) ==
    IF idx > Len(trackPoints) THEN nearestIdx
    ELSE LET dist == PlanarSquare(wpt, trackPoints[idx])
         IN  IF ~IsSome(nearestDist) \/ dist <= Get(nearestDist)
             THEN nearestLatest(wpt, trackPoints, idx + 1, idx, Some(dist))
             ELSE nearestLatest(wpt, trackPoints, idx + 1, nearestIdx,
                                nearestDist)

\* trackPoints.forEach((tp, idx) => ...) from idx on; nearestDist None is
\* Infinity; the index counts from 1
RECURSIVE nearest(_, _, _, _, _)
nearest(wpt, trackPoints, idx, nearestIdx, nearestDist) ==
    IF idx > Len(trackPoints) THEN nearestIdx
    ELSE LET dist == PlanarSquare(wpt, trackPoints[idx])
         IN  IF ~IsSome(nearestDist) \/ dist < Get(nearestDist)
             THEN nearest(wpt, trackPoints, idx + 1, idx, Some(dist))
             ELSE nearest(wpt, trackPoints, idx + 1, nearestIdx, nearestDist)

\* A variant of the markers that puts a waypoint without track points at
\* distance 0
RECURSIVE markersAtZero(_, _, _, _, _)
markersAtZero(wpts, i, seenWaypoints, trackPoints, markers) ==
    IF i > Len(wpts) THEN markers
    ELSE
      LET wpt == wpts[i]
          key == elevationWaypointKey(wpt.lat, wpt.lon)
          nearestPoint == trackPoints[nearest(wpt, trackPoints, 1, 1, None)]
      IN  IF key \in seenWaypoints
          THEN markersAtZero(wpts, i + 1, seenWaypoints, trackPoints, markers)
          ELSE markersAtZero(wpts, i + 1, seenWaypoints \union {key},
                   trackPoints,
                   Append(markers,
                       IF Len(trackPoints) = 0
                       THEN [distance |-> 0,
                             elevation |->
                                 IF IsSome(wpt.ele) THEN Get(wpt.ele) ELSE 0,
                             name |-> wpt.name]
                       ELSE [distance |-> nearestPoint.distance,
                             elevation |->
                                 IF IsSome(wpt.ele) THEN Get(wpt.ele)
                                 ELSE nearestPoint.elevation,
                             name |-> wpt.name]))

\* The waypoint markers from waypoint i on
RECURSIVE markersFrom(_, _, _, _, _)
markersFrom(wpts, i, seenWaypoints, trackPoints, markers) ==
    IF i > Len(wpts) THEN markers
    ELSE
      LET wpt == wpts[i]
          key == elevationWaypointKey(wpt.lat, wpt.lon)
          nearestPoint == trackPoints[nearest(wpt, trackPoints, 1, 1, None)]
      IN  IF key \in seenWaypoints
          THEN markersFrom(wpts, i + 1, seenWaypoints, trackPoints, markers)
          ELSE markersFrom(wpts, i + 1, seenWaypoints \union {key},
                   trackPoints,
                   Append(markers,
                       IF Len(trackPoints) = 0
                       THEN [distance |-> Len(markers) * Kilometre,
                             elevation |->
                                 IF IsSome(wpt.ele) THEN Get(wpt.ele) ELSE 0,
                             name |-> wpt.name]
                       ELSE [distance |-> nearestPoint.distance,
                             elevation |->
                                 IF IsSome(wpt.ele) THEN Get(wpt.ele)
                                 ELSE nearestPoint.elevation,
                             name |-> wpt.name]))

\* The number of samples above which the chart samples its data
SampleLimit == 500

\* Math.ceil(a / b) of whole numbers
Ceil(a, b) == (a + b - 1) \div b

\* data.filter((_, index) => index % step === 0)
EveryNth(data, step) ==
    [k \in 1..((Len(data) + step - 1) \div step) |-> data[(k - 1) * step + 1]]

\* A variant that rounds the step down
downSampleFloor(data) ==
    IF Len(data) > SampleLimit
    THEN EveryNth(data, Len(data) \div SampleLimit)
    ELSE data

\* let sampledData = data; if (data.length > 500) ...
downSample(data) ==
    IF Len(data) > SampleLimit
    THEN EveryNth(data, Ceil(Len(data), SampleLimit))
    ELSE data

\* The chart data made of the markers when there is no sample
withMarkers(sampledData, markers) ==
    IF Len(sampledData) = 0 /\ Len(markers) > 0
    THEN [i \in 1..Len(markers) |->
             [distance |-> markers[i].distance,
              elevation |-> markers[i].elevation,
              fileIndex |-> 0]]
    ELSE sampledData

\* Math.min and Math.max of the elevations of a list with an entry
MinElevation(data) ==
    CHOOSE e \in {data[i].elevation : i \in DOMAIN data} :
        \A i \in DOMAIN data : e <= data[i].elevation

MaxElevation(data) ==
    CHOOSE e \in {data[i].elevation : i \in DOMAIN data} :
        \A i \in DOMAIN data : e >= data[i].elevation

\* The loop over the elevation differences for i from `from` to `to`
\* (indices counted from 1); the sums are taken by halves, so that the
\* evaluation does not nest as deep as the list is long
RECURSIVE gainLoss(_, _, _)
gainLoss(data, from, to) ==
    IF from > to THEN [gain |-> 0, loss |-> 0]
    ELSE IF from = to
    THEN LET diff == data[from].elevation - data[from - 1].elevation
         IN  IF diff > 0 THEN [gain |-> diff, loss |-> 0]
             ELSE [gain |-> 0, loss |-> Abs(diff)]
    ELSE LET mid == (from + to) \div 2
             head == gainLoss(data, from, mid)
             rest == gainLoss(data, mid + 1, to)
         IN  [gain |-> head.gain + rest.gain, loss |-> head.loss + rest.loss]

\* const stats: None is null
statsOf(elevationData) ==
    IF Len(elevationData) = 0 THEN None
    ELSE Some([minEle |-> MinElevation(elevationData),
               maxEle |-> MaxElevation(elevationData),
               totalDistance |-> elevationData[Len(elevationData)].distance,
               gain |-> gainLoss(elevationData, 2, Len(elevationData)).gain,
               loss |-> gainLoss(elevationData, 2, Len(elevationData)).loss])

\* What a render of the chart computes from its files
ElevationProfile(files) ==
    LET retained == firstPass(IndexedPoints(files, 1), 1, {}, None, 0)
        trackPoints == trackPointsOf(retained)
        data == dataOf(retained)
        markers == markersFrom(AllWaypoints(files), 1, {}, trackPoints, <<>>)
        elevationData == withMarkers(downSample(data), markers)
    IN  [trackPoints |-> trackPoints,
         data |-> data,
         waypointMarkers |-> markers,
         elevationData |-> elevationData,
         stats |-> statsOf(elevationData)]

---------------------------------------------------------------------------
(* The elevation chart and the distance statistics on loaded files *)

MaxChartItems == 3

\* Track points around 50 degrees north, 14 degrees east, all with finite
\* coordinates and elevations: a point, the same point with a timestamp, a
\* point that rounds to the same key, the same place at another elevation,
\* two points 120 units of 10^-7 degree to the north and to the east, and
\* a point without elevation between them.
ChartPoint(dLat, dLon, ele, time) ==
    [lat |-> BaseLat + dLat, lon |-> BaseLon + dLon, ele |-> ele, time |-> time]

ChartPointVals ==
    {ChartPoint(0, 0, Some(20000), None),
     ChartPoint(0, 0, Some(20000), Some(<<"2024-01-01T10:00:00Z">>)),
     ChartPoint(4, 0, Some(20004), None),
     ChartPoint(0, 0, Some(20500), None),
     ChartPoint(120, 0, Some(21000), None),
     ChartPoint(0, 120, Some(19000), None),
     ChartPoint(60, 60, None, None)}

\* Waypoints: at the first point with an elevation of its own, one that
\* rounds to the same key, one half way to the northern point and one at
\* the eastern point
ChartWaypoint(dLat, dLon, ele, name) ==
    [lat |-> BaseLat + dLat, lon |-> BaseLon + dLon, ele |-> ele, name |-> name]

ChartWaypointVals ==
    {ChartWaypoint(0, 0, Some(30000), None),
     ChartWaypoint(40, 0, None, None),
     ChartWaypoint(60, 0, None, None),
     ChartWaypoint(0, 120, None, Some(<<"H", "u", "t">>))}

InitChart ==
    /\ chartFiles = <<>>
    /\ rendered = None
    /\ chartData = <<>>
    /\ sampled = <<>>
    /\ gpxIn = <<>>
    /\ merged = None
    /\ inSteps = None
    /\ IdleParse
    /\ InitialSlots

\* A further file is loaded into a slot
LoadFile ==
    /\ rendered = None
    /\ IF chartFiles = <<>> THEN TRUE
       ELSE TotalItems(<<chartFiles[Len(chartFiles)]>>) > 0
    /\ chartFiles' = Append(chartFiles, EmptyGpx(GpxName(Len(chartFiles) + 1)))
    /\ UNCHANGED <<mergeVars, parseVars, slotVars, rendered, chartData, sampled>>

\* The file being loaded has a further track point
LoadPoint ==
    /\ rendered = None
    /\ chartFiles # <<>>
    /\ TotalItems(chartFiles) < MaxChartItems
    /\ \E p \in ChartPointVals, newTrack \in BOOLEAN :
           chartFiles' = [chartFiles EXCEPT
                             ![Len(chartFiles)] = WithPoint(@, p, newTrack)]
    /\ UNCHANGED <<mergeVars, parseVars, slotVars, rendered, chartData, sampled>>

\* The file being loaded has a further waypoint
LoadWaypoint ==
    /\ rendered = None
    /\ chartFiles # <<>>
    /\ TotalItems(chartFiles) < MaxChartItems
    /\ \E w \in ChartWaypointVals :
           chartFiles' = [chartFiles EXCEPT
                             ![Len(chartFiles)].waypoints = Append(@, w)]
    /\ UNCHANGED <<mergeVars, parseVars, slotVars, rendered, chartData, sampled>>

\* The chart renders its files, and each drop zone the distance of its file
Render ==
    /\ rendered = None
    /\ rendered' =
           Some([profile |-> ElevationProfile(chartFiles),
                 totalDistance |->
                     [i \in 1..Len(chartFiles) |->
                         getTotalDistance(chartFiles[i])]])
    /\ UNCHANGED <<mergeVars, parseVars, slotVars, chartFiles, chartData, sampled>>

NextChart == LoadFile \/ LoadPoint \/ LoadWaypoint \/ Render

SpecChart == InitChart /\ [][NextChart]_vars

---------------------------------------------------------------------------
(* Claims about the elevation profile, checked under SpecChart *)

\* The sum of the values of a function on the whole numbers lo..hi
RECURSIVE SumOver(_, _, _)
SumOver(f, lo, hi) ==
    IF lo > hi THEN 0
    ELSE IF lo = hi THEN f[lo]
    ELSE SumOver(f, lo, (lo + hi) \div 2) + SumOver(f, (lo + hi) \div 2 + 1, hi)

\* Whether a track point has an elevation
HasElevation(pt) == IsSome(pt.ele)

\* The place and elevation of each entry of trackPoints
PlacesOfSamples(trackPoints) ==
    [i \in 1..Len(trackPoints) |->
        <<trackPoints[i].lat, trackPoints[i].lon, trackPoints[i].elevation>>]

\* The place and elevation of each track point of a list of such points
PlacesOfPoints(points) ==
    [i \in 1..Len(points) |->
        <<points[i].lat, points[i].lon, Get(points[i].ele)>>]

\* C11: the samples of the profile before down-sampling are the points with
\* an elevation among the points that the merge engine's deduplication keeps
\* of the same files, in the same order; two points equal in place and
\* elevation with different timestamps are both samples.
C11_SamplesAreMergedPointsWithElevation ==
    rendered # None =>
        PlacesOfSamples(Get(rendered).profile.trackPoints)
            = PlacesOfPoints(SelectSeq(deduplicateTrack(AllPoints(chartFiles)),
                                       HasElevation))

\* The identity under which the profile retains a point with elevation
ElevationIdentity(p) ==
    <<Round(p.lat, 10), Round(p.lon, 10), Round(Get(p.ele), 10)>>

\* The members of s at the indices ks, in the order of s
AtIndices(s, ks) ==
    [n \in 1..Cardinality(ks) |->
        s[CHOOSE k \in ks : Cardinality({j \in ks : j < k}) = n - 1]]

\* The input points with an elevation, without those that repeat the
\* identity of an earlier one
RetainedPoints(files) ==
    LET withEle == SelectSeq(InputPoints(files), HasElevation)
    IN  AtIndices(withEle,
            {k \in DOMAIN withEle :
                \A j \in 1..(k - 1) :
                    ElevationIdentity(withEle[j]) # ElevationIdentity(withEle[k])})

\* C12: the samples are the retained points with elevation, in input order
\* over all files and tracks; a point without elevation gives no sample and
\* is no previous point. The first sample is at distance 0, every later one
\* at the distance of the sample before it plus the great-circle distance
\* between the two, so the distances never decrease.
C12_CumulativeDistance ==
    rendered # None =>
        LET trackPoints == Get(rendered).profile.trackPoints
            data == Get(rendered).profile.data
        IN  /\ PlacesOfSamples(trackPoints)
                   = PlacesOfPoints(RetainedPoints(chartFiles))
            /\ Len(data) = Len(trackPoints)
            /\ \A i \in DOMAIN trackPoints :
                   /\ data[i].distance = trackPoints[i].distance
                   /\ data[i].elevation = trackPoints[i].elevation
                   /\ trackPoints[i].distance =
                          IF i = 1 THEN 0
                          ELSE trackPoints[i - 1].distance
                                 + haversineDistance(
                                       trackPoints[i - 1].lat,
                                       trackPoints[i - 1].lon,
                                       trackPoints[i].lat, trackPoints[i].lon)
            /\ \A i, j \in DOMAIN trackPoints :
                   i < j => trackPoints[i].distance <= trackPoints[j].distance

\* A point with elevation in one file, then in a second file a point without
\* elevation and a point with elevation elsewhere: two samples, the second
\* at a positive distance
C12_Witness ==
    /\ rendered # None
    /\ Len(chartFiles) = 2
    /\ Len(AllPoints(chartFiles)) = 3
    /\ ~HasElevation(AllPoints(chartFiles)[2])
    /\ Len(Get(rendered).profile.data) = 2
    /\ Get(rendered).profile.data[1].fileIndex = 0
    /\ Get(rendered).profile.data[2].fileIndex = 1
    /\ Get(rendered).profile.data[2].distance > 0

\* The input waypoints without those that repeat the identity of an
\* earlier one
DistinctWaypoints(files) ==
    LET all == InputWaypoints(files)
    IN  AtIndices(all,
            {k \in DOMAIN all :
                \A j \in 1..(k - 1) :
                    WaypointIdentity(all[j]) # WaypointIdentity(all[k])})

\* The square of the planar distance of two places in degrees
SquaredDegrees(a, b) ==
    (a.lat - b.lat) * (a.lat - b.lat) + (a.lon - b.lon) * (a.lon - b.lon)

\* The earliest of the retained points that no other is nearer to w than
NearestRetained(w, trackPoints) ==
    CHOOSE n \in DOMAIN trackPoints :
        /\ \A j \in DOMAIN trackPoints :
               SquaredDegrees(w, trackPoints[n]) <= SquaredDegrees(w, trackPoints[j])
        /\ \A j \in 1..(n - 1) :
               SquaredDegrees(w, trackPoints[n]) < SquaredDegrees(w, trackPoints[j])

\* C14: when a point has an elevation, every distinct waypoint has exactly
\* one marker, in order; the marker is at the cumulative distance of the
\* retained point nearest to the waypoint in the plane of degrees, the
\* earliest of the nearest ones, and at the waypoint's own elevation or,
\* without one, at that point's elevation.
C14_MarkerAtNearestPoint ==
    (rendered # None /\ Len(Get(rendered).profile.trackPoints) >= 1) =>
        LET trackPoints == Get(rendered).profile.trackPoints
            markers == Get(rendered).profile.waypointMarkers
            wpts == DistinctWaypoints(chartFiles)
        IN  /\ Len(markers) = Len(wpts)
            /\ \A k \in DOMAIN wpts :
                   LET near == trackPoints[NearestRetained(wpts[k], trackPoints)]
                   IN  /\ markers[k].distance = near.distance
                       /\ markers[k].elevation =
                              IF wpts[k].ele # None THEN Get(wpts[k].ele)
                              ELSE near.elevation
                       /\ markers[k].name = wpts[k].name

\* A waypoint without elevation as far from a retained point as from a
\* later one, which is elsewhere: its marker is at the earlier one
C14_Witness ==
    /\ rendered # None
    /\ Len(Get(rendered).profile.trackPoints) = 2
    /\ Len(Get(rendered).profile.waypointMarkers) = 1
    /\ LET trackPoints == Get(rendered).profile.trackPoints
           w == AllWaypoints(chartFiles)[1]
       IN  /\ w.ele = None
           /\ SquaredDegrees(w, trackPoints[1]) = SquaredDegrees(w, trackPoints[2])
           /\ trackPoints[1].distance < trackPoints[2].distance
           /\ Get(rendered).profile.waypointMarkers[1].distance
                  = trackPoints[1].distance

\* Whether no track point of the files has an elevation
NoElevation(files) ==
    \A k \in DOMAIN InputPoints(files) : ~HasElevation(InputPoints(files)[k])

\* C15: when no track point of any file has an elevation, the k-th distinct
\* waypoint (k = 0, 1, 2, ...) has a marker at distance k, at its own
\* elevation or at 0 without one, and the chart data are exactly these
\* markers in order; one file with one waypoint gives one sample, at
\* distance 0.
C15_WaypointsSpreadWithoutElevation ==
    (rendered # None /\ NoElevation(chartFiles)) =>
        LET markers == Get(rendered).profile.waypointMarkers
            elevationData == Get(rendered).profile.elevationData
            wpts == DistinctWaypoints(chartFiles)
        IN  /\ Len(markers) = Len(wpts)
            /\ Len(elevationData) = Len(wpts)
            /\ \A k \in DOMAIN wpts :
                   /\ markers[k].distance = (k - 1) * Kilometre
                   /\ markers[k].elevation =
                          IF wpts[k].ele # None THEN Get(wpts[k].ele) ELSE 0
                   /\ elevationData[k].distance = markers[k].distance
                   /\ elevationData[k].elevation = markers[k].elevation
            /\ (Len(chartFiles) = 1 /\ Len(chartFiles[1].waypoints) = 1) =>
                   (Len(elevationData) = 1 /\ elevationData[1].distance = 0)

\* A track point without elevation and two distinct waypoints, one with an
\* elevation of its own and one without: two samples, a kilometre apart
C15_Witness ==
    /\ rendered # None
    /\ NoElevation(chartFiles)
    /\ Len(AllPoints(chartFiles)) = 1
    /\ Len(Get(rendered).profile.elevationData) = 2
    /\ Get(rendered).profile.elevationData[1].elevation = 30000
    /\ Get(rendered).profile.elevationData[2].distance = Kilometre
    /\ Get(rendered).profile.elevationData[2].elevation = 0

\* The great-circle distances between the consecutive points of a track,
\* added up
TrackLength(track) ==
    SumOver([j \in 1..(Len(track) - 1) |->
                haversineDistance(track[j].lat, track[j].lon,
                                  track[j + 1].lat, track[j + 1].lon)],
            1, Len(track) - 1)

\* C17: the distance of a track is the sum of the great-circle distances of
\* its consecutive pairs of points, 0 for a single point; the total distance
\* of a file is the sum of the distances of its tracks, with nothing added
\* between the last point of a track and the first of the next, and 0 for a
\* file without tracks.
C17_TotalDistanceIsSumOfTracks ==
    rendered # None =>
        \A f \in DOMAIN chartFiles :
            LET tracks == chartFiles[f].tracks
                total == Get(rendered).totalDistance[f]
            IN  /\ total = SumOver([t \in DOMAIN tracks |-> TrackLength(tracks[t])],
                                   1, Len(tracks))
                /\ (\A t \in DOMAIN tracks : Len(tracks[t]) <= 1) => total = 0

\* A file with a track of two points and a second track that starts
\* elsewhere: its distance is that between the two points
C17_Witness ==
    /\ rendered # None
    /\ Len(chartFiles) = 1
    /\ Len(chartFiles[1].tracks) = 2
    /\ Len(chartFiles[1].tracks[1]) = 2
    /\ chartFiles[1].tracks[1][2].lat # chartFiles[1].tracks[2][1].lat
    /\ Get(rendered).totalDistance[1] > 0
    /\ Get(rendered).totalDistance[1] = TrackLength(chartFiles[1].tracks[1])

---------------------------------------------------------------------------
(* The down-sampling and the statistics on long sample lists *)

MaxSteps == 3
MaxOver == 2
MaxPeriod == 4

\* The numbers of samples: few, and around the multiples of the limit
SampleCounts ==
    (0..MaxOver)
        \union {k * SampleLimit + d : k \in 1..MaxSteps, d \in (0 - MaxOver)..MaxOver}

\* The list `data` that the first pass leaves for n points 10 cm apart
\* whose elevations rise by a metre from point to point and fall back every
\* `period` points
SampleList(n, period) ==
    [i \in 1..n |->
        [distance |-> (i - 1) * Pow10(5),
         elevation |-> 20000 + 100 * ((i - 1) % period),
         fileIndex |-> 0]]

InitSample ==
    /\ chartData \in {SampleList(n, period) :
                         n \in SampleCounts, period \in 1..MaxPeriod}
    /\ sampled = None
    /\ chartFiles = <<>>
    /\ rendered = <<>>
    /\ gpxIn = <<>>
    /\ merged = None
    /\ inSteps = None
    /\ IdleParse
    /\ InitialSlots

\* The chart samples its data and computes the statistics it shows; the
\* files have no waypoint
Sample ==
    /\ sampled = None
    /\ LET elevationData == withMarkers(downSample(chartData), <<>>)
       IN  sampled' = Some([elevationData |-> elevationData,
                            stats |-> statsOf(elevationData)])
    /\ UNCHANGED <<mergeVars, parseVars, slotVars, chartFiles, rendered, chartData>>

NextSample == Sample

SpecSample == InitSample /\ [][NextSample]_vars

---------------------------------------------------------------------------
(* Claims about long sample lists, checked under SpecSample *)

\* The smallest and the largest elevation of a list
Lowest(data) ==
    CHOOSE i \in DOMAIN data : \A j \in DOMAIN data :
        data[i].elevation <= data[j].elevation

Highest(data) ==
    CHOOSE i \in DOMAIN data : \A j \in DOMAIN data :
        data[i].elevation >= data[j].elevation

\* What each step of a list climbs, and what it descends
Climbs(data) ==
    [i \in 2..Len(data) |->
        IF data[i].elevation > data[i - 1].elevation
        THEN data[i].elevation - data[i - 1].elevation ELSE 0]

Descents(data) ==
    [i \in 2..Len(data) |->
        IF data[i].elevation < data[i - 1].elevation
        THEN data[i - 1].elevation - data[i].elevation ELSE 0]

\* C13: for more than 500 samples the minimum, the maximum, the gain and
\* the loss that the chart reports are those of the full sample list.
C13_StatsOfFullList ==
    (sampled # None /\ Len(chartData) > SampleLimit) =>
        LET stats == Get(Get(sampled).stats)
        IN  /\ stats.minEle = chartData[Lowest(chartData)].elevation
            /\ stats.maxEle = chartData[Highest(chartData)].elevation
            /\ stats.gain = SumOver(Climbs(chartData), 2, Len(chartData))
            /\ stats.loss = SumOver(Descents(chartData), 2, Len(chartData))

\* The smallest whole number of which `limit` times it is at least n
StepFor(n, limit) ==
    CHOOSE step \in 1..n : step * limit >= n /\ (step - 1) * limit < n

\* C19: a sample list of at most 500 samples is left as it is; of a list of
\* n > 500 samples exactly those at the indices 0, s, 2s, ... with
\* s = ceil(n / 500) are kept, in their order: the first sample is kept and
\* no more than 500 are.
C19_DownSampling ==
    sampled # None =>
        LET n == Len(chartData)
            elevationData == Get(sampled).elevationData
        IN  IF n <= SampleLimit THEN elevationData = chartData
            ELSE LET step == StepFor(n, SampleLimit)
                     kept == {i \in 0..(n - 1) : i % step = 0}
                 IN  /\ Len(elevationData) = Cardinality(kept)
                     /\ \A k \in DOMAIN elevationData :
                            elevationData[k] = chartData[(k - 1) * step + 1]
                     /\ elevationData[1] = chartData[1]
                     /\ Len(elevationData) <= SampleLimit

\* A list of a sample more than twice the limit was sampled with step 3
C19_Witness ==
    /\ sampled # None
    /\ Len(chartData) = 2 * SampleLimit + 1
    /\ Len(Get(sampled).elevationData) = 334
    /\ Get(sampled).elevationData[2] = chartData[4]
    /\ Get(sampled).elevationData[2] # chartData[2]

---------------------------------------------------------------------------
(* Upload slots: the route component and its drop zones *)

MaxSlots == 4
MaxReads == 1

Max(a, b) == IF a > b THEN a ELSE b

\* [...prev]: the copy holds undefined where the array has a hole
Spread(prev) ==
    [i \in 1..Len(prev) |-> IF prev[i] = Hole THEN Undefined ELSE prev[i]]

\* updated[index] = value: past the end the array grows, with holes between
\* its old end and the index
Assign(updated, index, value) ==
    [i \in 1..Max(Len(updated), index) |->
        IF i = index THEN value
        ELSE IF i <= Len(updated) THEN updated[i]
        ELSE Hole]

\* A variant that ignores an index past the end of the slots
handleFileLoadedInRange(prev, index, data) ==
    IF index <= Len(prev) THEN Assign(Spread(prev), index, Loaded(data))
    ELSE prev

handleFileLoaded(prev, index, data) ==
    Assign(Spread(prev), index, Loaded(data))

handleClear(prev, index) == Assign(Spread(prev), index, Null)

handleAddSlot(prev) == Append(Spread(prev), Null)

\* prev.filter((_, i) => i !== index) from position i on: filter skips the
\* holes of the array
RECURSIVE FilterFrom(_, _, _)
FilterFrom(prev, i, index) ==
    IF i > Len(prev) THEN <<>>
    ELSE (IF i = index \/ prev[i] = Hole THEN <<>> ELSE <<prev[i]>>)
             \o FilterFrom(prev, i + 1, index)

\* current is the gpxFiles of the render whose handler runs, prev the state
\* the updater is applied to
handleRemoveSlot(current, prev, index) ==
    IF Len(current) <= 2 THEN prev ELSE FilterFrom(prev, 1, index)

\* gpxFiles.map renders a drop zone for every index that is not a hole
Mounted(files, index) ==
    /\ index \in 1..Len(files)
    /\ files[index] # Hole

\* The zone shows its drop area and file input if (gpxData) fails
ShowsDropArea(files, index) ==
    /\ Mounted(files, index)
    /\ files[index] \in {Null, Undefined}

\* The error states after a render of the slots `after`: a zone is keyed by
\* its index, keeps its state while it stays mounted and starts from null
\* when it is mounted
Rendered(before, after, errors) ==
    [i \in 1..Len(after) |->
        IF Mounted(before, i) /\ Mounted(after, i) THEN errors[i] ELSE None]

\* setError of a call whose zone was unmounted changes nothing
StillMounted(after, calls) ==
    [r \in 1..Len(calls) |->
        [calls[r] EXCEPT !.alive = @ /\ Mounted(after, calls[r].index)]]

Without(calls, r) ==
    SubSeq(calls, 1, r - 1) \o SubSeq(calls, r + 1, Len(calls))

PleaseUpload == <<"Please upload a GPX file">>
NoTracksOrWaypoints == <<"No tracks or waypoints found in GPX file">>
FailedToParse == <<"Failed to parse GPX file">>

\* A variant that takes every parse result as not empty
neverEmpty(data) == FALSE

\* parsed.tracks.length === 0 && parsed.waypoints.length === 0
isEmptyResult(data) ==
    Len(data.tracks) = 0 /\ Len(data.waypoints) = 0

\* <gpx><metadata><name>Test Track</name></metadata>
\*   <trk><trkseg><trkpt lat="50.5" lon="14.25"/></trkseg></trk></gpx>
TrackXml ==
    [wellFormed |-> TRUE,
     metadata |-> Some([name |-> Some(<<"T", "e", "s", "t", " ", "T", "r", "a", "c", "k">>),
                        desc |-> None, time |-> None]),
     wpts |-> <<>>,
     trks |-> <<[name |-> None, segs |-> <<<<BaseTrkpt>>>>]>>]

\* <gpx><trk><trkseg></trkseg></trk></gpx>
NoPointXml ==
    [wellFormed |-> TRUE, metadata |-> None, wpts |-> <<>>,
     trks |-> <<[name |-> None, segs |-> <<<<>>>>]>>]

\* The files a user drops: a track under an upper-case suffix, the same text
\* under another suffix, a text without points, and the text of the track
\* cut off before its closing tags
Files ==
    {[name |-> <<"T", "r", "i", "p", ".", "G", "P", "X">>, text |-> TrackXml],
     [name |-> <<"n", "o", "t", "e", "s", ".", "t", "x", "t">>, text |-> TrackXml],
     [name |-> <<"e", "m", "p", "t", "y", ".", "g", "p", "x">>, text |-> NoPointXml],
     [name |-> <<"c", "u", "t", ".", "g", "p", "x">>, text |-> [TrackXml EXCEPT !.wellFormed = FALSE]]}

InitIngest ==
    /\ IdleMerge
    /\ IdleParse
    /\ InitialSlots
    /\ IdleChart

\* handleFile up to its await: the error is reset, a name without the
\* suffix is refused, else the read of the file starts
DropFile(index, file) ==
    /\ ShowsDropArea(gpxFiles, index)
    /\ IF ~endsWith(toLowerCase(file.name), GpxSuffix)
       THEN /\ error' = [error EXCEPT ![index] = Some(PleaseUpload)]
            /\ UNCHANGED reads
       ELSE /\ Len(reads) < MaxReads
            /\ error' = [error EXCEPT ![index] = None]
            /\ reads' = Append(reads, [index |-> index, file |-> file,
                                       alive |-> TRUE])
    /\ UNCHANGED <<chartVars, mergeVars, parseVars, gpxFiles>>

\* handleFile after file.text() resolved
ReadComplete(r, keepsPartial) ==
    /\ r \in 1..Len(reads)
    /\ LET call == reads[r]
           result == parseGPX(call.file.text, call.file.name, keepsPartial)
       IN  IF isEmptyResult(result)
           THEN /\ error' = IF call.alive
                            THEN [error EXCEPT
                                     ![call.index] = Some(NoTracksOrWaypoints)]
                            ELSE error
                /\ reads' = Without(reads, r)
                /\ UNCHANGED gpxFiles
           ELSE /\ gpxFiles' = handleFileLoaded(gpxFiles, call.index, result)
                /\ error' = Rendered(gpxFiles, gpxFiles', error)
                /\ reads' = StillMounted(gpxFiles', Without(reads, r))
    /\ UNCHANGED <<chartVars, mergeVars, parseVars>>

\* handleFile after file.text() rejected (the file can no longer be read)
ReadRejected(r) ==
    /\ r \in 1..Len(reads)
    /\ error' = IF reads[r].alive
                THEN [error EXCEPT ![reads[r].index] = Some(FailedToParse)]
                ELSE error
    /\ reads' = Without(reads, r)
    /\ UNCHANGED <<chartVars, mergeVars, parseVars, gpxFiles>>

\* The clear button of a zone that shows a file
Clear(index) ==
    /\ Mounted(gpxFiles, index)
    /\ ~ShowsDropArea(gpxFiles, index)
    /\ gpxFiles' = handleClear(gpxFiles, index)
    /\ error' = Rendered(gpxFiles, gpxFiles', error)
    /\ reads' = StillMounted(gpxFiles', reads)
    /\ UNCHANGED <<chartVars, mergeVars, parseVars>>

AddSlot ==
    /\ Len(gpxFiles) < MaxSlots
    /\ gpxFiles' = handleAddSlot(gpxFiles)
    /\ error' = Rendered(gpxFiles, gpxFiles', error)
    /\ reads' = StillMounted(gpxFiles', reads)
    /\ UNCHANGED <<chartVars, mergeVars, parseVars>>

\* The remove button of a zone: rendered while there are more than 2 slots
RemoveSlot(index) ==
    /\ Len(gpxFiles) > 2
    /\ Mounted(gpxFiles, index)
    /\ gpxFiles' = handleRemoveSlot(gpxFiles, gpxFiles, index)
    /\ error' = Rendered(gpxFiles, gpxFiles', error)
    /\ reads' = StillMounted(gpxFiles', reads)
    /\ UNCHANGED <<chartVars, mergeVars, parseVars>>

NextIngest ==
    \/ \E index \in 1..MaxSlots, file \in Files : DropFile(index, file)
    \/ \E r \in 1..MaxReads, keepsPartial \in BOOLEAN :
           ReadComplete(r, keepsPartial)
    \/ \E r \in 1..MaxReads : ReadRejected(r)
    \/ \E index \in 1..MaxSlots : Clear(index)
    \/ AddSlot
    \/ \E index \in 1..MaxSlots : RemoveSlot(index)

SpecIngest == InitIngest /\ [][NextIngest]_vars

---------------------------------------------------------------------------
(* Claims about the upload slots, checked under SpecIngest *)

\* C7: when the read of a file whose text is not well-formed XML completes
\* in a mounted drop zone, the zone shows "Failed to parse GPX file" and the
\* slots are as they were: the file is neither stored nor reported as a file
\* without tracks or waypoints.
C7_MalformedFileFailsToParse ==
    [][\A r \in 1..MaxReads, keepsPartial \in BOOLEAN :
          (/\ ReadComplete(r, keepsPartial)
           /\ ~reads[r].file.text.wellFormed
           /\ reads[r].alive)
              => /\ error'[reads[r].index] = Some(FailedToParse)
                 /\ gpxFiles' = gpxFiles]_vars

\* Every slot that holds a GPXData holds one with a track or a waypoint
SlotsHoldTracksOrWaypoints ==
    \A i \in 1..Len(gpxFiles) :
        gpxFiles[i].kind = "data" =>
            Len(gpxFiles[i].data.tracks) + Len(gpxFiles[i].data.waypoints) >= 1

\* The files whose name does not end in ".gpx", in any letter case
FilesWithoutSuffix ==
    {file \in Files : WithoutGpxSuffix(file.name) = file.name}

\* The files whose parse holds no track and no waypoint, with the
\* browser's choice under which it does
FilesWithoutResult ==
    {pair \in Files \X BOOLEAN :
        LET result == parseGPX(pair[1].text, pair[1].name, pair[2])
        IN  Len(result.tracks) + Len(result.waypoints) = 0}

\* A step that refuses a file leaves the slots as they are: a file without
\* the suffix starts no read and sets the error of its zone; a read whose
\* parse result holds nothing sets the error of its zone, if the zone is
\* still mounted
RefusalKeepsSlots ==
    /\ \A index \in 1..Len(gpxFiles), file \in FilesWithoutSuffix :
           DropFile(index, file)
               => /\ gpxFiles' = gpxFiles
                  /\ reads' = reads
                  /\ error'[index] = Some(PleaseUpload)
    /\ \A r \in 1..Len(reads), keepsPartial \in BOOLEAN :
           (/\ <<reads[r].file, keepsPartial>> \in FilesWithoutResult
            /\ ReadComplete(r, keepsPartial))
               => /\ gpxFiles' = gpxFiles
                  /\ reads[r].alive =>
                         error'[reads[r].index] = Some(NoTracksOrWaypoints)

StoresFile == Len(reads') < Len(reads) /\ gpxFiles' # gpxFiles

\* C20: when the read of a file completes, the file is stored in the slot
\* on which the read was started, whatever slots were removed, added,
\* cleared or loaded meanwhile: the slot is one of the list, no other slot
\* changes, and the list gets no new entry and no hole.
C20_ReadStoresInItsSlot ==
    [][StoresFile =>
          \E r \in 1..Len(reads) :
              /\ reads[r].index <= Len(gpxFiles)
              /\ Len(gpxFiles') = Len(gpxFiles)
              /\ gpxFiles'[reads[r].index] = Loaded(gpxFiles'[reads[r].index].data)
              /\ \A i \in 1..Len(gpxFiles) :
                     i # reads[r].index => gpxFiles'[i] = gpxFiles[i]]_vars

\* There are at least two upload slots
AtLeastTwoSlots == Len(gpxFiles) >= 2

\* The slots after a step are those before it with an empty slot appended
SlotAppended ==
    /\ Len(gpxFiles') = Len(gpxFiles) + 1
    /\ gpxFiles'[Len(gpxFiles')] = Null
    /\ \A i \in 1..Len(gpxFiles) : gpxFiles'[i] = gpxFiles[i]

\* There were more than two slots and the slots after a step are those
\* before it without exactly one of them
SlotRemoved ==
    /\ Len(gpxFiles) > 2
    /\ \E index \in 1..Len(gpxFiles) : gpxFiles' = Without(gpxFiles, index)

\* The slots after a step are as many as before it, and all but one hold
\* what they held
SlotContentChanged ==
    /\ Len(gpxFiles') = Len(gpxFiles)
    /\ \E index \in 1..Len(gpxFiles) :
           \A i \in 1..Len(gpxFiles) :
               i # index => gpxFiles'[i] = gpxFiles[i]

\* C21: there are at least two upload slots in every reachable state: every
\* step that changes the slots appends one empty slot at the end, or
\* removes exactly one slot while there are more than two, or, as a load
\* or a clear, changes the content of one slot and not the number of slots.
C21_AtLeastTwoSlots ==
    /\ []AtLeastTwoSlots
    /\ [][SlotAppended \/ SlotRemoved \/ SlotContentChanged]_vars

====
